---- MODULE Spec2Model ----
(***************************************************************************)
(* Battery dispatch optimisation: optimizer.run (problem construction,     *)
(* objective, equality constraints, SLSQP call, result extraction) and the *)
(* Dash callback app.run_model that calls it.                              *)
(*                                                                         *)
(* Numbers are exact rationals <<n, d>> (d > 0, lowest terms), so that the *)
(* divisions and products of the source are computed as written; floating  *)
(* point rounding is not modelled.  scipy's minimize is an external        *)
(* routine: its answer is any vector inside the bounds it was given, on a  *)
(* finite grid of levels, with a success flag.                             *)
(***************************************************************************)
EXTENDS Integers, Sequences, FiniteSets

VARIABLES pc, caller, args, problem, sol, result, n_clicks, figure

vars == <<pc, caller, args, problem, sol, result, n_clicks, figure>>

\* Python's None, for a name that is not bound
None == [none |-> TRUE]

(* ---------------------------------------------------------------- bounds *)
\* longest price series handed to run
MaxN == 3
\* number of presses of the RUN button
MaxClicks == 1
\* number of periods the full-power charge is followed for
MaxSteps == 8

(* ------------------------------------------------------ exact arithmetic *)
Abs(n) == IF n < 0 THEN -n ELSE n

RECURSIVE GCD(_, _)
GCD(a, b) == IF b = 0 THEN a ELSE GCD(b, a % b)

\* the rational n/d in lowest terms with a positive denominator (d # 0)
Q(n, d) ==
    LET g == GCD(Abs(n), Abs(d))
        s == IF d < 0 THEN -1 ELSE 1
    IN  <<(s * n) \div g, (s * d) \div g>>

Zero == Q(0, 1)
One == Q(1, 1)

RAdd(a, b) == Q(a[1] * b[2] + b[1] * a[2], a[2] * b[2])
RSub(a, b) == Q(a[1] * b[2] - b[1] * a[2], a[2] * b[2])
RMul(a, b) == Q(a[1] * b[1], a[2] * b[2])
\* a / b, for b # 0 (Python raises ZeroDivisionError otherwise)
RDiv(a, b) == Q(a[1] * b[2], a[2] * b[1])
RNeg(a) == <<-a[1], a[2]>>
RLe(a, b) == a[1] * b[2] <= b[1] * a[2]
RLt(a, b) == a[1] * b[2] < b[1] * a[2]

\* the builtin sum over a sequence of rationals
RECURSIVE sum(_)
sum(s) == IF Len(s) = 0 THEN Zero ELSE RAdd(Head(s), sum(Tail(s)))

\* np.full(n, v), np.zeros(n)
full(n, v) == [i \in 1..n |-> v]
zeros(n) == full(n, Zero)

(* ------------------------------------------------- run: the problem built *)
\* the keyword arguments of run
RunArgs(cap, vol, eff, isoc, prices, cc, dc, act, tf, fsoc) ==
    [capacity |-> cap, volume |-> vol, efficiency |-> eff, input_soc |-> isoc,
     prices |-> prices, charge_cost |-> cc, discharge_cost |-> dc,
     activation |-> act, time_frequency |-> tf, final_soc |-> fsoc]

\* the divisions of lines 40-41 that raise ZeroDivisionError
DivisionByZero(a) ==
    \/ a.capacity = Zero
    \/ a.time_frequency = Zero
    \/ RMul(RDiv(a.volume, a.capacity), RDiv(One, a.time_frequency)) = Zero

period(a) == Len(a.prices)

mw_to_mwh(a) == a.time_frequency

steps_full_trip(a) ==
    RMul(RDiv(a.volume, a.capacity), RDiv(One, a.time_frequency))

\* mutant: the volume / capacity factor is dropped
soc_stepPerTrip(a) ==
    full(period(a), RDiv(One, steps_full_trip(a)))

soc_step(a) ==
    full(period(a), RMul(RDiv(a.volume, a.capacity), RDiv(One, steps_full_trip(a))))

\* mutant: the guess is a module-level array an earlier solve has written to
x0Carried(a) ==
    IF n_clicks = 0 THEN zeros(period(a) * 3) ELSE full(period(a) * 3, One)

x0(a) == zeros(period(a) * 3)

all_bounds(a) ==
    LET charge_bounds == full(period(a), <<Zero, a.capacity>>)
        discharge_bounds == full(period(a), <<Zero, a.capacity>>)
        soc_bounds == full(period(a), <<Zero, a.volume>>)
    IN  charge_bounds \o discharge_bounds \o soc_bounds

\* the locals of run that the closures and the minimize call use
BuildProblem(a) ==
    [period |-> period(a),
     charge_cost |-> full(period(a), a.charge_cost),
     discharge_cost |-> full(period(a), a.discharge_cost),
     activation |-> full(period(a), a.activation),
     mw_to_mwh |-> mw_to_mwh(a),
     efficiency |-> a.efficiency,
     input_soc |-> a.input_soc,
     final_soc |-> a.final_soc,
     volume |-> a.volume,
     soc_step |-> soc_step(a),
     x0 |-> x0(a),
     all_bounds |-> all_bounds(a),
     prices |-> a.prices]

\* the three slices of the decision vector
charge_idx(P, x) == SubSeq(x, 1, P.period)
discharge_idx(P, x) == SubSeq(x, P.period + 1, P.period * 2)
soc_idx(P, x) == SubSeq(x, P.period * 2 + 1, P.period * 3)

(* ------------------------------------------- objective and constraints *)
\* mutant: the discharge term is left in MW, not converted to MWh
objectiveDischargeInMw(P, x, p) ==
    LET charge == charge_idx(P, x)
        discharge == discharge_idx(P, x)
    IN  RSub(
          sum([i \in 1..P.period |->
                RMul(RMul(RMul(charge[i], P.mw_to_mwh), P.efficiency),
                     RAdd(p[i], P.charge_cost[i]))]),
          sum([i \in 1..P.period |->
                RMul(discharge[i],
                     RSub(RSub(p[i], P.discharge_cost[i]), P.activation[i]))]))

\* mutant: the profit is returned, so that minimize maximises the cost
objectiveProfit(P, x, p) ==
    LET charge == charge_idx(P, x)
        discharge == discharge_idx(P, x)
    IN  RSub(
          sum([i \in 1..P.period |->
                RMul(RMul(discharge[i], P.mw_to_mwh),
                     RSub(RSub(p[i], P.discharge_cost[i]), P.activation[i]))]),
          sum([i \in 1..P.period |->
                RMul(RMul(RMul(charge[i], P.mw_to_mwh), P.efficiency),
                     RAdd(p[i], P.charge_cost[i]))]))

objective(P, x, p) ==
    LET charge == charge_idx(P, x)
        discharge == discharge_idx(P, x)
    IN  RSub(
          sum([i \in 1..P.period |->
                RMul(RMul(RMul(charge[i], P.mw_to_mwh), P.efficiency),
                     RAdd(p[i], P.charge_cost[i]))]),
          sum([i \in 1..P.period |->
                RMul(RMul(discharge[i], P.mw_to_mwh),
                     RSub(RSub(p[i], P.discharge_cost[i]), P.activation[i]))]))

\* mutant: charge[1:] and discharge[1:] in place of charge[:-1], discharge[:-1]
soc_changeShifted(P, x) ==
    LET charge == charge_idx(P, x)
        discharge == discharge_idx(P, x)
        soc == soc_idx(P, x)
    IN  [i \in 1..(P.period - 1) |->
           RAdd(RSub(RSub(soc[i + 1], soc[i]),
                     RMul(RMul(charge[i + 1], P.efficiency), P.soc_step[i])),
                RMul(discharge[i + 1], P.soc_step[i]))]

\* one residual per transition i -> i+1, i = 0 .. period-2 (1-based here)
soc_change(P, x) ==
    LET charge == charge_idx(P, x)
        discharge == discharge_idx(P, x)
        soc == soc_idx(P, x)
    IN  [i \in 1..(P.period - 1) |->
           RAdd(RSub(RSub(soc[i + 1], soc[i]),
                     RMul(RMul(charge[i], P.efficiency), P.soc_step[i])),
                RMul(discharge[i], P.soc_step[i]))]

start_soc(P, x) == RSub(soc_idx(P, x)[1], P.input_soc)

end_soc(P, x) == RSub(soc_idx(P, x)[P.period], P.final_soc)

\* mutant: discharge[0] in place of discharge[-1]
no_first_discharge(P, x) == discharge_idx(P, x)[1]

no_final_discharge(P, x) == discharge_idx(P, x)[P.period]

\* the four 'eq' constraints all have a zero residual at x (the scalar ones
\* are looked at first; the conjunction is the same)
constraints(P, x) ==
    /\ start_soc(P, x) = Zero
    /\ end_soc(P, x) = Zero
    /\ no_final_discharge(P, x) = Zero
    /\ LET residual == soc_change(P, x)
       IN  \A i \in 1..(P.period - 1) : residual[i] = Zero

(* ----------------------------------------------------- the solver's reach *)
\* fractions of a bound interval the solver's answer is sampled at
PowerLevels == {Q(0, 1), Q(1, 1)}
SocLevels == {Q(0, 1), Q(1, 2), Q(1, 1)}

Levels(b, fr) == {RAdd(b[1], RMul(f, RSub(b[2], b[1]))) : f \in fr}

\* the vectors within all_bounds (SLSQP keeps its iterates inside the bounds)
Box(P) ==
    LET n == P.period
        cs == [1..n -> Levels(P.all_bounds[1], PowerLevels)]
        ds == [1..n -> Levels(P.all_bounds[n + 1], PowerLevels)]
        ss == [1..n -> Levels(P.all_bounds[2 * n + 1], SocLevels)]
    IN  {c \o d \o s : c \in cs, d \in ds, s \in ss}

\* the OptimizeResult of minimize: x, success, fun
OptimizeResult(P, x, ok) ==
    [x |-> x, success |-> ok, fun |-> objective(P, x, P.prices)]

\* mutant: the soc slice is returned in MWh, not divided by volume
ExtractUnscaled(P, s) ==
    [charge |-> charge_idx(P, s.x),
     discharge |-> discharge_idx(P, s.x),
     soc |-> soc_idx(P, s.x),
     sol |-> s]

\* lines 104-109: the tuple run returns
Extract(P, s) ==
    [charge |-> charge_idx(P, s.x),
     discharge |-> discharge_idx(P, s.x),
     soc |-> [i \in 1..P.period |-> RDiv(soc_idx(P, s.x)[i], P.volume)],
     sol |-> s]

(* ------------------------------------------------------------- the inputs *)
Flat(n, p) == full(n, Q(p, 1))
Alt(n) == [i \in 1..n |-> IF i % 2 = 1 THEN Q(10, 1) ELSE Q(50, 1)]

Half == Q(1, 2)
Two == Q(2, 1)
Five == Q(5, 1)

\* lossless, free of costs, over every horizon
LosslessArgs ==
    {RunArgs(One, One, One, Zero, Alt(n), Zero, Zero, Zero, Half, Zero) :
        n \in 2..MaxN}
    \cup {RunArgs(One, One, One, Half, Alt(2), Zero, Zero, Zero, Half, Half)}

\* lossy with costs, on the shortest horizon
LossyArgs ==
    {RunArgs(Two, v, Half, s, pr, Five, Five, Five, Half, f) :
        v \in {One, Two}, s \in {Half, One}, f \in {Half, One},
        pr \in {Alt(2), Flat(2, -10)}}

\* arguments outside the preconditions
InvalidArgs ==
    {RunArgs(Zero, One, One, Half, Alt(2), Five, Five, Five, Half, Half),
     RunArgs(One, Zero, One, Zero, Alt(2), Five, Five, Five, Half, Zero),
     RunArgs(One, One, Q(3, 2), Half, Alt(2), Five, Five, Five, Half, Half),
     RunArgs(One, One, One, Q(3, 2), Alt(2), Five, Five, Five, Half, Half),
     RunArgs(One, One, One, Half, Alt(2), Five, Five, Five, Half, Q(-1, 2)),
     RunArgs(One, One, One, Half, Alt(1), Five, Five, Five, Half, Half)}

ArgSpace == LosslessArgs \cup LossyArgs \cup InvalidArgs

\* prices.csv, column day_ahead, as loaded at import
df == Alt(2)

\* the values the widgets of the layout hold when RUN is pressed
WidgetStates ==
    [capacity : {1}, volume : {1, 2}, efficiency : {100}, input_soc : {50, 100},
     charge_cost : {5}, discharge_cost : {5}, strike : {10}]

\* the call of lines 79-88, with the defaults of run for what it leaves out
RunModelArgs(w) ==
    RunArgs(Q(w.capacity, 1), Q(w.volume, 1), Q(w.efficiency, 100),
            Q(w.input_soc, 100), df, Q(w.charge_cost, 1), Q(w.discharge_cost, 1),
            Q(w.strike, 1), Half, Half)

(* ------------------------------------------------------------ the machine *)
Init ==
    /\ pc = "idle"
    /\ caller = "nobody"
    /\ args = None
    /\ problem = None
    /\ sol = None
    /\ result = None
    /\ n_clicks = 0
    /\ figure = None

\* a caller other than the page calls run(**a)
CallRun(a) ==
    /\ pc = "idle"
    /\ pc' = "called"
    /\ caller' = "direct"
    /\ args' = a
    /\ problem' = None
    /\ sol' = None
    /\ result' = None
    /\ UNCHANGED <<n_clicks, figure>>

\* the page fires run_model before any press: n_clicks == 0, nothing is drawn
PageLoad ==
    /\ pc = "idle"
    /\ n_clicks = 0
    /\ figure' = None
    /\ UNCHANGED <<pc, caller, args, problem, sol, result, n_clicks>>

\* RUN is pressed: run_model reads the widgets and calls run
run_model(w) ==
    /\ pc = "idle"
    /\ n_clicks < MaxClicks
    /\ n_clicks' = n_clicks + 1
    /\ pc' = "called"
    /\ caller' = "ui"
    /\ args' = RunModelArgs(w)
    /\ problem' = None
    /\ sol' = None
    /\ result' = None
    /\ UNCHANGED figure

\* lines 31-93: the vectors, bounds, initial guess and constraints
Build ==
    /\ pc = "called"
    /\ IF DivisionByZero(args)
         THEN /\ pc' = "error"
              /\ problem' = None
         ELSE /\ pc' = "built"
              /\ problem' = BuildProblem(args)
    /\ UNCHANGED <<caller, args, sol, result, n_clicks, figure>>

\* mutant: run raises when the solver did not converge
AfterMinimizeRaising(s) == IF s.success THEN "returned" ELSE "error"

\* run never looks at sol.success: line 104 follows the call unconditionally
AfterMinimize(s) == "returned"

\* what minimize may answer at x with flag ok
SolverAnswer(P, x, ok) == ok => constraints(P, x)

\* lines 95-109: minimize answers, run slices the answer and returns
Solve ==
    /\ pc = "built"
    /\ \E x \in Box(problem), ok \in BOOLEAN :
         /\ SolverAnswer(problem, x, ok)
         /\ sol' = OptimizeResult(problem, x, ok)
         /\ pc' = AfterMinimize(sol')
         /\ result' = IF pc' = "returned" THEN Extract(problem, sol') ELSE None
    /\ UNCHANGED <<caller, args, problem, n_clicks, figure>>

\* lines 90-112: run_model draws the figure, its title carrying sol.success
Render ==
    /\ pc = "returned"
    /\ caller = "ui"
    /\ figure' = [status |-> result.sol.success]
    /\ pc' = "idle"
    /\ caller' = "nobody"
    /\ args' = None
    /\ problem' = None
    /\ sol' = None
    /\ result' = None
    /\ UNCHANGED n_clicks

\* the direct caller takes the tuple; the error of a failed call reaches the caller
Finish ==
    /\ \/ pc = "returned" /\ caller = "direct"
       \/ pc = "error"
    /\ pc' = "idle"
    /\ caller' = "nobody"
    /\ args' = None
    /\ problem' = None
    /\ sol' = None
    /\ result' = None
    /\ UNCHANGED <<n_clicks, figure>>

Next ==
    \/ \E a \in ArgSpace : CallRun(a)
    \/ PageLoad
    \/ \E w \in WidgetStates : run_model(w)
    \/ Build
    \/ Solve
    \/ Render
    \/ Finish

Spec == Init /\ [][Next]_vars

(* --------------------------------------------------- the two scenarios *)
\* constant prices, with charge_cost, discharge_cost and activation all > 0
FlatArgs ==
    {RunArgs(One, One, e, Half, Flat(2, p), Five, Five, Five, Half, Half) :
        p \in {-10, 10}, e \in {Half, One}}
    \cup {RunArgs(One, One, Zero, Half, Flat(2, 10), Five, Five, Five, Half, Half),
          RunArgs(One, One, One, One, Flat(2, 10), Five, Five, Five, Half, Half)}
    \cup {RunArgs(One, One, One, Half, Flat(n, p), Five, Five, Five, Half, Half) :
            n \in 3..MaxN, p \in {-10, 10}}

NextFlat ==
    \/ \E a \in FlatArgs : CallRun(a)
    \/ Build
    \/ Solve
    \/ Finish

SpecFlat == Init /\ [][NextFlat]_vars

\* the arbitrage scenario of section 8 of the specification
ArbArgs ==
    RunArgs(One, One, One, Zero, <<Q(10, 1), Q(50, 1), Q(10, 1), Q(50, 1)>>,
            Zero, Zero, Zero, Half, Zero)

NextArb ==
    \/ CallRun(ArbArgs)
    \/ Build
    \/ Solve
    \/ Finish

SpecArb == Init /\ [][NextArb]_vars

\* the vectors within the bounds that satisfy the four constraints
Feasible(P) == {y \in Box(P) : constraints(P, y)}

\* x minimises the objective over the feasible set
Minimiser(P, x) ==
    /\ constraints(P, x)
    /\ \A y \in Feasible(P) :
         RLe(objective(P, x, P.prices), objective(P, y, P.prices))

(* ------------------------------------- the recurrence under full charge *)
\* the recurrence of soc_change followed from an empty battery, with
\* charge[i] = capacity and discharge[i] = 0 in every period
ChargeArgs ==
    {RunArgs(c, v, e, Zero, Flat(MaxSteps + 1, 10), Five, Five, Five, tf, Zero) :
        c \in {One, Two}, v \in {One, Two, Q(3, 1), Q(4, 1)},
        e \in {Zero, Half, One}, tf \in {Half, One}}

\* the raw soc values a step may land on
SocGrid(a) ==
    {Q(j, 4) : j \in 0..(4 * (a.volume[1] + a.capacity[1]))}

\* the raw soc entry of x after j periods
SocAfter(P, x, j) == soc_idx(P, x)[j + 1]

InitCharge ==
    /\ pc = "charging"
    /\ caller = "nobody"
    /\ args \in ChargeArgs
    /\ problem = BuildProblem(args)
    /\ sol = [x |-> full(period(args), args.capacity)
                     \o zeros(period(args)) \o zeros(period(args))]
    /\ result = 0
    /\ n_clicks = 0
    /\ figure = None

\* one more period: the next soc is the value that zeroes the residual of
\* soc_change for this transition
ChargeStep ==
    /\ pc = "charging"
    /\ result < MaxSteps
    /\ RLt(SocAfter(problem, sol.x, result), args.volume)
    /\ \E s \in SocGrid(args) :
         LET y == [sol.x EXCEPT ![2 * problem.period + result + 2] = s]
         IN  /\ soc_change(problem, y)[result + 1] = Zero
             /\ sol' = [x |-> y]
    /\ result' = result + 1
    /\ UNCHANGED <<pc, caller, args, problem, n_clicks, figure>>

NextCharge == ChargeStep

SpecCharge == InitCharge /\ [][NextCharge]_vars

(* ------------------------------------------------------------ the claims *)
Returned == pc = "returned"

\* the inputs the claims call valid: N >= 2, capacity > 0, volume > 0,
\* efficiency, input_soc and final_soc in [0, 1], time_frequency > 0
Valid(a) ==
    /\ Len(a.prices) >= 2
    /\ RLt(Zero, a.capacity)
    /\ RLt(Zero, a.volume)
    /\ RLe(Zero, a.efficiency) /\ RLe(a.efficiency, One)
    /\ RLe(Zero, a.input_soc) /\ RLe(a.input_soc, One)
    /\ RLe(Zero, a.final_soc) /\ RLe(a.final_soc, One)
    /\ RLt(Zero, a.time_frequency)

N == Len(args.prices)

\* C1 (as stated): for valid inputs and a decision vector satisfying the
\* start_soc and end_soc constraints, the returned SoC fraction series starts
\* at input_soc and ends at final_soc.
C1_SocFractionEndpoints ==
    (Returned /\ Valid(args)
       /\ start_soc(problem, sol.x) = Zero /\ end_soc(problem, sol.x) = Zero)
    => /\ result.soc[1] = args.input_soc
       /\ result.soc[N] = args.final_soc

\* C2 (as stated): a call with invalid parameters ends in an error before any
\* bounds, constraints or initial guess exist, and never reaches the solver.
C2_InvalidRejectedBeforeBuild ==
    (args # None /\ ~Valid(args))
    => /\ pc \in {"called", "error"}
       /\ problem = None
       /\ sol = None

\* C5: for valid inputs every returned charge and discharge lies in
\* [0, capacity] and every returned SoC fraction lies in [0, 1].
C5_ReturnedSeriesWithinBounds ==
    (Returned /\ Valid(args))
    => \A i \in 1..N :
         /\ RLe(Zero, result.charge[i]) /\ RLe(result.charge[i], args.capacity)
         /\ RLe(Zero, result.discharge[i]) /\ RLe(result.discharge[i], args.capacity)
         /\ RLe(Zero, result.soc[i]) /\ RLe(result.soc[i], One)

C5_Witness ==
    /\ Returned /\ Valid(args)
    /\ args.volume = Two
    /\ \E i \in 1..N : result.soc[i] = One
    /\ \E i \in 1..N : result.charge[i] = args.capacity

\* C6: when the solver answers without converging, run raises nothing: it
\* returns the three series sliced from the solver's vector together with
\* the solver result, and run_model puts that success flag in the title.
C6_NonConvergenceIsData ==
    [][ /\ (pc = "built" /\ sol' # None /\ ~sol'.success)
           => /\ pc' = "returned"
              /\ result'.sol = sol'
              /\ \A i \in 1..Len(args.prices) :
                   /\ result'.charge[i] = sol'.x[i]
                   /\ result'.discharge[i] = sol'.x[Len(args.prices) + i]
                   /\ RMul(result'.soc[i], args.volume)
                        = sol'.x[2 * Len(args.prices) + i]
        /\ (pc = "returned" /\ caller = "ui")
           => (figure' # None /\ figure'.status = sol.success) ]_vars

C6_Witness ==
    /\ figure # None
    /\ figure.status = FALSE

\* C7: whatever calls ran before, the solver is started from the all-zero
\* guess of length 3N, with bounds and cost vectors made from the arguments
\* of this call alone.
C7_ProblemFromArgumentsAlone ==
    (pc \in {"built", "returned"})
    => /\ problem.x0 = [i \in 1..(3 * N) |-> Zero]
       /\ problem.all_bounds =
            [i \in 1..(3 * N) |->
               IF i <= 2 * N THEN <<Zero, args.capacity>>
                             ELSE <<Zero, args.volume>>]
       /\ problem.charge_cost = [i \in 1..N |-> args.charge_cost]
       /\ problem.discharge_cost = [i \in 1..N |-> args.discharge_cost]
       /\ problem.activation = [i \in 1..N |-> args.activation]
       /\ problem.prices = args.prices
       /\ problem.efficiency = args.efficiency
       /\ problem.input_soc = args.input_soc
       /\ problem.final_soc = args.final_soc
       /\ problem.mw_to_mwh = args.time_frequency
       /\ problem.soc_step = [i \in 1..N |-> args.time_frequency]

\* a second call, after one whose figure is on the page, is about to solve
C7_Witness ==
    /\ pc = "built"
    /\ figure # None
    /\ caller = "direct"

\* C8: with efficiency 1 and no costs the negated objective value equals the
\* revenue of the returned discharge minus the cost of the returned charge.
C8_LosslessIdentity ==
    (Returned /\ args.efficiency = One /\ args.charge_cost = Zero
       /\ args.discharge_cost = Zero /\ args.activation = Zero)
    => RNeg(sol.fun) =
         RSub(sum([i \in 1..N |->
                    RMul(RMul(result.discharge[i], args.time_frequency),
                         args.prices[i])]),
              sum([i \in 1..N |->
                    RMul(RMul(result.charge[i], args.time_frequency),
                         args.prices[i])]))

C8_Witness ==
    /\ Returned /\ args.efficiency = One /\ args.charge_cost = Zero
    /\ args.discharge_cost = Zero /\ args.activation = Zero
    /\ RLt(sol.fun, Zero)
    /\ \E i \in 1..N : result.charge[i] # Zero

\* C10: charge[N-1] is in none of the constraints: from a vector satisfying
\* bounds and constraints, any other value in [0, capacity] for it gives a
\* vector satisfying them too, with the same soc, and an objective changed by
\* (new - old) * mw_to_mwh * efficiency * (price[N-1] + charge_cost).
C10_LastChargeIsFree ==
    (Returned /\ Valid(args) /\ constraints(problem, sol.x))
    => \A v \in Levels(<<Zero, args.capacity>>, SocLevels) :
         LET y == [sol.x EXCEPT ![N] = v]
         IN  /\ constraints(problem, y)
             /\ \A i \in 1..(3 * N) :
                  /\ RLe(problem.all_bounds[i][1], y[i])
                  /\ RLe(y[i], problem.all_bounds[i][2])
             /\ soc_idx(problem, y) = soc_idx(problem, sol.x)
             /\ RSub(objective(problem, y, args.prices),
                     objective(problem, sol.x, args.prices))
                  = RMul(RMul(RMul(RSub(v, sol.x[N]), args.time_frequency),
                              args.efficiency),
                         RAdd(args.prices[N], args.charge_cost))

C10_Witness ==
    /\ Returned /\ Valid(args) /\ constraints(problem, sol.x)
    /\ sol.x[N] = args.capacity
    /\ N >= 3
    /\ \E i \in 1..(N - 1) : sol.x[i] # Zero

IsFlat(pr) == \A i \in 1..Len(pr) : pr[i] = pr[1]

NoDispatch ==
    \A i \in 1..N : result.charge[i] = Zero /\ result.discharge[i] = Zero

FlatCase ==
    /\ Returned /\ Valid(args)
    /\ IsFlat(args.prices)
    /\ RLt(Zero, args.charge_cost)
    /\ RLt(Zero, args.discharge_cost)
    /\ RLt(Zero, args.activation)
    /\ Minimiser(problem, sol.x)

\* C3 (as stated): with constant prices of any value and charge_cost,
\* discharge_cost, activation all > 0, every minimiser of the objective over
\* the feasible set has charge[i] = 0 and discharge[i] = 0 for all i.
C3_FlatPricesNoDispatch == FlatCase => NoDispatch

\* C3 (amended): with a constant price p such that p + charge_cost > 0, with
\* efficiency > 0 and input_soc = final_soc, and charge_cost, discharge_cost,
\* activation all > 0, every minimiser over the feasible set has
\* charge[i] = 0 and discharge[i] = 0 for all i.
C3_FlatPricesNoDispatchAmended ==
    (FlatCase
       /\ RLt(Zero, RAdd(args.prices[1], args.charge_cost))
       /\ RLt(Zero, args.efficiency)
       /\ args.input_soc = args.final_soc)
    => NoDispatch

\* a minimiser is returned in an amended case where a round trip is feasible
C3_Witness ==
    /\ FlatCase
    /\ RLt(Zero, RAdd(args.prices[1], args.charge_cost))
    /\ args.efficiency = One
    /\ args.input_soc = args.final_soc
    /\ N >= 3
    /\ \E y \in Feasible(problem) : y[1] # Zero /\ y[N + 2] # Zero

ArbCase ==
    /\ Returned
    /\ args = ArbArgs
    /\ Minimiser(problem, sol.x)

\* C4 (as stated): in the arbitrage scenario every minimiser over the
\* feasible set has charge[0] > 0, charge[2] > 0, discharge[1] > 0,
\* discharge[3] = 0 and a strictly negative objective value.
C4_ArbitrageDispatch ==
    ArbCase
    => /\ RLt(Zero, result.charge[1])
       /\ RLt(Zero, result.charge[3])
       /\ RLt(Zero, result.discharge[2])
       /\ result.discharge[4] = Zero
       /\ RLt(sol.fun, Zero)

\* C4 (amended): in the arbitrage scenario every minimiser over the feasible
\* set has charge[0] > 0, discharge[1] > 0, discharge[3] = 0, a strictly
\* negative objective value, and charge[2] = discharge[2] (no net charge in
\* period 2, where the charge may be zero).
C4_ArbitrageDispatchAmended ==
    ArbCase
    => /\ RLt(Zero, result.charge[1])
       /\ result.charge[3] = result.discharge[3]
       /\ RLt(Zero, result.discharge[2])
       /\ result.discharge[4] = Zero
       /\ RLt(sol.fun, Zero)

C4_Witness ==
    /\ ArbCase
    /\ result.charge[3] = Zero
    /\ sol.fun = Q(-20, 1)

====
